---- MODULE Spec2Model ----
(***************************************************************************)
(* Pregnancy-OSC: the dispatch logic (pregancy_handler.rs), the metadata   *)
(* cache (osc_query_cache.rs) and the receive loop (osc_server.rs).        *)
(*                                                                         *)
(* Option<T> is modelled as a sequence: None is <<>>, Some(x) is <<x>>.    *)
(* f32 gestation durations are kept in half units (8.0 is 16).             *)
(* Instants are indices of a clock; TimeMs gives their milliseconds.       *)
(***************************************************************************)
EXTENDS Integers, Sequences, FiniteSets, TLC

\* ------------------------------------------------------------------ bounds
MaxTick == 3
MaxOps == 4

\* ------------------------------------------------------- program constants
CACHE_TTL_MS == 5000
CLEAR_DEBOUNCE_MS == 500
MAX_CHILDREN == 12
DEFAULT_GESTATION_TIME == 16
U8_MAX == 255
I16_MAX == 32767

None == <<>>
Some(x) == <<x>>
IsSome(o) == o # <<>>
Unwrap(o) == o[1]

\* The instants the clock passes through: 0, 500, 600, 5000, 5500, 5600, ...
\* so that elapsed times of exactly 500 ms, just over 500 ms, under 5 s and
\* exactly 5 s all occur.
TimeMs(t) ==
    (t \div 3) * CACHE_TTL_MS
      + (IF t % 3 = 0 THEN 0 ELSE IF t % 3 = 1 THEN CLEAR_DEBOUNCE_MS ELSE CLEAR_DEBOUNCE_MS + 100)

\* ------------------------------------------------------------- GestationType
GestationTypes == {"Hours", "Days", "Weeks", "Months", "Mins"}

seconds_per_unit(g) ==
    CASE g = "Hours" -> 3600
      [] g = "Days" -> 86400
      [] g = "Weeks" -> 604800
      [] g = "Months" -> 2592000
      [] g = "Mins" -> 60

\* TryFrom<u8> for GestationType: Ok(member) is <<member>>, Err is <<>>.
GestationType_try_from(value) ==
    CASE value = 0 -> Some("Hours")
      [] value = 1 -> Some("Days")
      [] value = 2 -> Some("Weeks")
      [] value = 3 -> Some("Months")
      [] value = 4 -> Some("Mins")
      [] OTHER -> None

\* From<GestationType> for i32 / u8: the discriminant.
GestationType_as_int(g) ==
    CASE g = "Hours" -> 0
      [] g = "Days" -> 1
      [] g = "Weeks" -> 2
      [] g = "Months" -> 3
      [] g = "Mins" -> 4

\* ------------------------------------------------------------------ ChildInfo
ChildInfo(ct, gt, g, n) ==
    [conception_time |-> ct, gestation_time |-> gt, gestation |-> g,
     number_of_childern |-> n]

ChildInfo_default == ChildInfo(None, DEFAULT_GESTATION_TIME, "Hours", 0)

\* ----------------------------------------------------- wire values and text
\* An OSC argument list of one element: Int(v), Float(v halves), Bool(true);
\* "Other" stands for every other list (empty, several elements, a string).
OscInt(v) == [t |-> "Int", v |-> v]
OscFloat(h) == [t |-> "Float", v |-> h]
OscBool == [t |-> "Bool", v |-> 1]
OscOther == [t |-> "Other", v |-> 0]

\* Text: "int" is the decimal text of the integer v, "dec" the text of the
\* number v/2 with a fractional part (v odd), "text" any other text.
TxtInt(v) == [s |-> "int", v |-> v]
TxtDec(h) == [s |-> "dec", v |-> h]
TxtOther == [s |-> "text", v |-> 0]

\* f32::to_string: a whole value prints without a fractional part ("8").
f32_to_string(h) == IF h % 2 = 0 THEN TxtInt(h \div 2) ELSE TxtDec(h)

\* OscServer::auto_convert on format!("{:?}", msg.args), followed by the
\* caller's unwrap_or((Unknown, raw text)): the text handed to parse().
auto_convert(arg) ==
    CASE arg.t = "Float" -> f32_to_string(arg.v)
      [] arg.t = "Int" ->
           IF -(I16_MAX + 1) <= arg.v /\ arg.v <= I16_MAX
             THEN TxtInt(arg.v)
             ELSE TxtOther
      [] arg.t = "Bool" -> TxtOther
      [] OTHER -> TxtOther

\* str::parse::<u8>: Ok(v) is <<v>>, Err is <<>>.
parse_u8(txt) ==
    IF txt.s = "int" /\ 0 <= txt.v /\ txt.v <= U8_MAX THEN Some(txt.v) ELSE None

\* str::parse::<f32>: the value in half units.
parse_f32(txt) ==
    CASE txt.s = "int" -> Some(2 * txt.v)
      [] txt.s = "dec" -> Some(txt.v)
      [] OTHER -> None

\* ------------------------------------------------------- the remote peer
\* The avatars the peer can wear, and the parameter tree its metadata
\* endpoint serves for each.
VrcAvatars == {"avtr_a", "avtr_b", "avtr_x"}

ParamsOf(a) ==
    CASE a = "avtr_a" -> {"PregnancySave", "Childcount"}
      [] a = "avtr_b" -> {"PregnancySave", "Tail"}
      [] OTHER -> {"Tail"}

JsonObject(contents) == [kind |-> "object", CONTENTS |-> contents]
JsonNull == [kind |-> "null", CONTENTS |-> {}]
TreeOf(a) == JsonObject(ParamsOf(a))

\* utils::json_path_exists(data, "/CONTENTS/<name>")
json_path_exists(data, name) == data.kind = "object" /\ name \in data.CONTENTS

\* What an HTTP request can come to: a well-formed answer, a transport error
\* or error status, a body that is no JSON, or (for the avatar id) JSON with
\* no string at VALUE[0].
HttpOutcomes == {"ok", "err", "badjson", "nostring"}

\* The keys the save file can hold: avatar ids and the empty-string sentinel.
AvatarIds == VrcAvatars \cup {""}

\* ------------------------------------------------------------ OscQueryCache
\* avatar_name is never written by the program and is left out.
OscQueryCache_new == [last_fetched |-> None, cached_data |-> None, avatar_id |-> None]

clear_avatar(c, t) ==
    IF IsSome(c.last_fetched)
         /\ TimeMs(t) - TimeMs(Unwrap(c.last_fetched)) > CLEAR_DEBOUNCE_MS
      THEN [last_fetched |-> Some(t), cached_data |-> None, avatar_id |-> None]
      ELSE c

\* get_avatar_parameters as it would be with <= in the test of the age.
get_avatar_parameters_inclusive(c, t, url, outcome, vrc) ==
    IF IsSome(c.last_fetched) /\ IsSome(c.cached_data)
         /\ TimeMs(t) - TimeMs(Unwrap(c.last_fetched)) <= CACHE_TTL_MS
      THEN [cache |-> c, res |-> "Ok", val |-> Unwrap(c.cached_data), http |-> FALSE]
      ELSE IF ~url
        THEN [cache |-> c, res |-> "Ok", val |-> JsonNull, http |-> FALSE]
        ELSE LET c1 == [c EXCEPT !.avatar_id = None] IN
          CASE outcome = "err" ->
                 [cache |-> c1, res |-> "Err", val |-> JsonNull, http |-> TRUE]
            [] outcome \in {"ok", "nostring"} ->
                 [cache |-> [c1 EXCEPT !.last_fetched = Some(t),
                                       !.cached_data = Some(TreeOf(vrc))],
                  res |-> "Ok", val |-> TreeOf(vrc), http |-> TRUE]
            [] OTHER ->
                 [cache |-> c1, res |-> "Ok", val |-> JsonNull, http |-> TRUE]

\* Result<Value, Error>: res is "Ok" or "Err"; http tells whether a request
\* was made.
get_avatar_parameters(c, t, url, outcome, vrc) ==
    IF IsSome(c.last_fetched) /\ IsSome(c.cached_data)
         /\ TimeMs(t) - TimeMs(Unwrap(c.last_fetched)) < CACHE_TTL_MS
      THEN [cache |-> c, res |-> "Ok", val |-> Unwrap(c.cached_data), http |-> FALSE]
      ELSE IF ~url
        THEN [cache |-> c, res |-> "Ok", val |-> JsonNull, http |-> FALSE]
        ELSE LET c1 == [c EXCEPT !.avatar_id = None] IN
          CASE outcome = "err" ->
                 [cache |-> c1, res |-> "Err", val |-> JsonNull, http |-> TRUE]
            [] outcome \in {"ok", "nostring"} ->
                 [cache |-> [c1 EXCEPT !.last_fetched = Some(t),
                                       !.cached_data = Some(TreeOf(vrc))],
                  res |-> "Ok", val |-> TreeOf(vrc), http |-> TRUE]
            [] OTHER ->
                 [cache |-> c1, res |-> "Ok", val |-> JsonNull, http |-> TRUE]

\* Result<Option<String>, Error>
get_avatar_id(c, url, outcome, vrc) ==
    IF IsSome(c.avatar_id)
      THEN [cache |-> c, res |-> "Ok", val |-> c.avatar_id, http |-> FALSE]
      ELSE IF ~url
        THEN [cache |-> c, res |-> "Ok", val |-> None, http |-> FALSE]
        ELSE
          CASE outcome = "err" ->
                 [cache |-> c, res |-> "Err", val |-> None, http |-> TRUE]
            [] outcome = "ok" ->
                 [cache |-> [c EXCEPT !.avatar_id = Some(vrc)],
                  res |-> "Ok", val |-> Some(vrc), http |-> TRUE]
            [] outcome = "nostring" ->
                 [cache |-> [c EXCEPT !.avatar_id = None],
                  res |-> "Ok", val |-> None, http |-> TRUE]
            [] OTHER ->
                 [cache |-> c, res |-> "Ok", val |-> Some(""), http |-> TRUE]

\* ------------------------------------------------------ the program state
VARIABLES
    SystemActive,    \* lazy_static SystemActive (always Some): its bool
    ChildData,       \* lazy_static ChildData: Option<ChildInfo>
    save_file,       \* save_data.json: avatar id -> Option<ChildInfo>
    CACHE,           \* lazy_static CACHE: the OscQueryCache
    cache_poisoned,  \* CACHE's mutex was poisoned by a panic of its holder
    OSC_QUERY,       \* lazy_static OSC_QUERY is Some (the base URL is known)
    vrc_avatar,      \* the avatar the remote peer wears
    vrc_http,        \* what a request to the peer's metadata endpoint comes to
    now,             \* the clock (an instant index)
    recv,            \* the receive thread: "start", "loop" (waiting for a
                     \* datagram), "dead", or the statement it is at
    ui,              \* the UI (main) thread: "run" (between frames), "dead",
                     \* or the statement it is at
    locals,          \* the local variables of the two threads
    bcast,           \* the broadcast thread: where it is, its locals, and the
                     \* PregnancySave message it sent last
    guards,          \* per thread, the MutexGuards it holds and the lock and
                     \* unlock steps still ahead in the entry point it runs
    ops,             \* how many events (handlers run, changes of the peer) have occurred
    last             \* the handler that ran last: what it saw and what it sent

vars == <<SystemActive, ChildData, save_file, CACHE, cache_poisoned, OSC_QUERY,
          vrc_avatar, vrc_http, now, recv, ui, locals, bcast, guards, ops, last>>

\* The state a handler works on, threaded through its statements. ok is
\* FALSE once the handler has panicked; every later statement is skipped.
\* tree and id are the handler's locals: the parameter tree avatar detection
\* obtained from the cache, and the avatar id the store was last indexed by.
World ==
    [active |-> SystemActive, data |-> ChildData, file |-> save_file,
     cache |-> CACHE, poisoned |-> cache_poisoned, sent |-> <<>>, ok |-> TRUE,
     tree |-> None, id |-> None, params |-> None, cleared |-> None, ids |-> <<>>,
     handled |-> <<>>, held |-> {}, io |-> <<>>]

\* What a handler remembers of its calls to the cache: the cache before and
\* after the call, and what the call returned.
\* A network call (an outbound send or an HTTP request) is remembered with
\* the mutexes its thread holds while it makes it.
NetworkCall(w, call, held) == [w EXCEPT !.io = Append(@, [call |-> call, held |-> held])]

\* A request of the cache is made under the guard get_osc_query_cache() gave.
Requested(w, r) == IF r.http THEN NetworkCall(w, "http", w.held \cup {"CACHE"}) ELSE w

CalledParameters(w, r, t) ==
    [Requested(w, r) EXCEPT !.cache = r.cache,
              !.params = Some([before |-> w.cache, after |-> r.cache, at |-> t,
                               res |-> r.res, val |-> r.val, http |-> r.http])]
CalledClear(w, t) ==
    [w EXCEPT !.cache = clear_avatar(w.cache, t),
              !.cleared = Some([before |-> w.cache, after |-> clear_avatar(w.cache, t),
                                at |-> t])]
CalledId(w, r) ==
    [Requested(w, r) EXCEPT !.cache = r.cache,
              !.ids = Append(@, [before |-> w.cache, after |-> r.cache,
                                 res |-> r.res, val |-> r.val, http |-> r.http])]

Panic(w) == [w EXCEPT !.ok = FALSE]
\* A panic while the guard of CACHE is alive poisons the mutex.
PanicHoldingCache(w) == [w EXCEPT !.ok = FALSE, !.poisoned = TRUE]

\* ------------------------------------------------- accessors of the state
\* get_system_active as it would be if the handlers did not look at the flag.
get_system_active_always(w) == TRUE

get_system_active(w) == w.active

set_system_active(w, value) == IF w.ok THEN [w EXCEPT !.active = value] ELSE w
get_child_data(w) == w.data
set_child_data(w, value) == IF w.ok THEN [w EXCEPT !.data = Some(value)] ELSE w
clear_child_data(w) == IF w.ok THEN [w EXCEPT !.data = None] ELSE w

\* get_child_data().unwrap_or_default()
ChildDataOrDefault(w) == IF IsSome(w.data) THEN Unwrap(w.data) ELSE ChildInfo_default

get_child_count(w) == ChildDataOrDefault(w).number_of_childern
get_conception_time(w) == ChildDataOrDefault(w).conception_time
get_gestation_time(w) == ChildDataOrDefault(w).gestation_time
get_gestation_type(w) == ChildDataOrDefault(w).gestation

\* The host:port OSC_QUERY holds once it is Some; the registry has no other
\* entry that is read.
REGISTRY_ADDRESS == "host:port"

\* OscServer::get_osc_query: the base URL of the metadata requests.
get_osc_query(url) ==
    IF url THEN Some([scheme |-> "http", address |-> REGISTRY_ADDRESS]) ELSE None

\* send_osc_data, Mode A: the address the datagram is sent to.
target_address(url) == IF url THEN REGISTRY_ADDRESS ELSE "127.0.0.1:9000"

\* OscServer::send_osc_data: the message leaves for the peer.
send_osc_data(w, addr, arg) ==
    IF w.ok THEN [NetworkCall(w, "send", w.held)
                    EXCEPT !.sent = Append(@, [addr |-> addr, arg |-> arg])]
    ELSE w

\* A MutexGuard of mutex m comes to life and is dropped.
Lock(w, m) == [w EXCEPT !.held = @ \cup {m}]
Unlock(w, m) == [w EXCEPT !.held = @ \ {m}]

SetField(w, rec) == IF w.ok /\ IsSome(w.data) THEN [w EXCEPT !.data = Some(rec)] ELSE w

\* The guard `lock` lives to the end of the function, past send_osc_data.
set_child_count(w, value) ==
    Unlock(send_osc_data(
               SetField(Lock(w, "ChildData"),
                        [ChildDataOrDefault(w) EXCEPT !.number_of_childern = value]),
               "/avatar/parameters/ChildCount", OscInt(value)),
           "ChildData")

clear_conception_time(w) ==
    SetField(w, [ChildDataOrDefault(w) EXCEPT !.conception_time = None])

set_conception_time(w, value) ==
    SetField(w, [ChildDataOrDefault(w) EXCEPT !.conception_time = Some(value)])

set_gestation_time(w, value) ==
    SetField(w, [ChildDataOrDefault(w) EXCEPT !.gestation_time = value])

set_gestation_type(w, value) ==
    SetField(w, [ChildDataOrDefault(w) EXCEPT
                   !.gestation = IF IsSome(GestationType_try_from(value))
                                   THEN Unwrap(GestationType_try_from(value))
                                   ELSE "Hours"])

\* child_counter as it would be if it stamped on every increase.
child_counter_restamp(w, value, t) ==
    IF value > get_child_count(w)
      THEN set_conception_time(set_child_count(w, value), t)
      ELSE w

child_counter(w, value, t) ==
    IF value > get_child_count(w)
      THEN LET w1 == set_child_count(w, value) IN
           IF get_conception_time(w1) = None THEN set_conception_time(w1, t) ELSE w1
      ELSE w

\* A fraction n/d of f64, d > 0.
Fraction(n, d) == [n |-> n, d |-> d]
FracLeq(f, g) == f.n * g.d <= g.n * f.d

\* (Local::now() - conception_time).num_seconds(): whole seconds between the
\* instants ct and t (the clock of the model never runs backwards).
num_seconds(ct, t) == (TimeMs(t) - TimeMs(ct)) \div 1000

\* get_gestation_progress_fraction at instant t. The duration is kept in
\* half units, so twice the total duration is gestation_time * seconds_per_unit.
\* A total of 0 divides to +inf or NaN, and f64::min(1.0) makes both 1.0; a
\* negative total divides to a value below 0, which min(1.0) leaves alone.
progress_fraction(child_count, gestation_time, gestation, conception_time, t) ==
    IF child_count = 0 THEN Fraction(0, 1)
    ELSE LET total2 == gestation_time * seconds_per_unit(gestation)
         IN IF conception_time = None THEN Fraction(0, 1)
            ELSE LET elapsed2 == 2 * num_seconds(Unwrap(conception_time), t) IN
                 IF total2 = 0 THEN Fraction(1, 1)
                 ELSE IF total2 < 0 THEN Fraction(-elapsed2, -total2)
                 ELSE IF elapsed2 >= total2 THEN Fraction(1, 1)
                 ELSE Fraction(elapsed2, total2)

\* The same with its four reads of the record made at once.
get_gestation_progress_fraction(w, t) ==
    progress_fraction(get_child_count(w), get_gestation_time(w), get_gestation_type(w),
                      get_conception_time(w), t)

\* --------------------------------------------------------------- persistence
\* save_data_writer as it would be if it kept the entries the file already
\* holds and added only the new ones.
save_data_writer_merge(data) ==
    [id \in DOMAIN data |-> IF save_file[id] = None THEN data[id] ELSE save_file[id]]

\* save_data_writer: File::create truncates save_data.json and write_all
\* writes the serialised store: the file holds the store it was given, whole.
save_data_writer(data) == data

\* save_data: read the whole store, replace the entry of the avatar id the
\* cache reports, write the whole store back.
save_data(w, url, http, vrc) ==
    IF ~w.ok THEN w
    ELSE IF w.poisoned THEN Panic(w)
    ELSE LET r == get_avatar_id(w.cache, url, http, vrc)
             w1 == CalledId(w, r)
         IN IF r.res = "Err" \/ r.val = None THEN PanicHoldingCache(w1)
            ELSE IF w1.file[Unwrap(r.val)] = None THEN PanicHoldingCache(w1)
            ELSE IF get_child_data(w1) = None THEN Panic(w1)
            ELSE [w1 EXCEPT !.file[Unwrap(r.val)] = get_child_data(w1), !.id = r.val]

\* ------------------------------------------------------------ avatar detection
\* The tree check_avatar_oscquery decides on.
DetectionTree(w, t0, url, http, vrc) == get_avatar_parameters(w.cache, t0, url, http, vrc)

\* or_insert as it would be with insert(): the stored record is overwritten.
or_insert_overwrite(file, id) == [file EXCEPT ![id] = Some(ChildInfo_default)]

\* HashMap::entry(id).or_insert(default record) on the store read from disk.
or_insert(file, id) ==
    IF file[id] = None THEN [file EXCEPT ![id] = Some(ChildInfo_default)] ELSE file

\* SendCorrective as it would be without the test child_count > 0.
SendCorrective_unconditional(w) ==
    LET child_count == get_child_count(w) IN
    send_osc_data(
      send_osc_data(
        send_osc_data(
          send_osc_data(w, "/avatar/parameters/GestationTime",
                        OscFloat(get_gestation_time(w))),
          "/avatar/parameters/Gestation",
          OscInt(GestationType_as_int(get_gestation_type(w)))),
        "/avatar/parameters/ChildCount", OscInt(child_count)),
      "/avatar/parameters/IsPregnant", OscBool)

\* The corrective messages sent on entry to Active, from the record as the
\* getters return it.
SendCorrective(w) ==
    LET gestation_time == get_gestation_time(w)
        gestation_type == get_gestation_type(w)
        child_count == get_child_count(w)
        w1 == send_osc_data(
                send_osc_data(w, "/avatar/parameters/GestationTime",
                              OscFloat(gestation_time)),
                "/avatar/parameters/Gestation",
                OscInt(GestationType_as_int(gestation_type)))
    IN IF child_count > 0
         THEN send_osc_data(
                send_osc_data(w1, "/avatar/parameters/ChildCount", OscInt(child_count)),
                "/avatar/parameters/IsPregnant", OscBool)
         ELSE w1

\* The statements of the branch taken when the subtree is found.
EnterActive(w, url, http, vrc) ==
    LET r == get_avatar_id(w.cache, url, http, vrc)
        w1 == CalledId(w, r)
    IN IF r.res = "Err" \/ r.val = None THEN PanicHoldingCache(w1)
       ELSE LET id == Unwrap(r.val)
                data == or_insert(w1.file, id)
                w2 == set_system_active(set_child_data(w1, Unwrap(data[id])), TRUE)
                w3 == SendCorrective(w2)
            IN [w3 EXCEPT !.file = data, !.id = r.val]

\* LeaveActive as it would be without clear_child_data().
LeaveActive_keepRecord(w) == set_system_active(w, FALSE)

\* The statements of the branch taken when the subtree is absent.
LeaveActive(w) == clear_child_data(set_system_active(w, FALSE))

\* check_avatar_oscquery().unwrap(): t0 is the instant get_avatar_parameters
\* reads, t1 the instant clear_avatar reads after the request, http what a
\* request comes to.
check_avatar_oscquery(w, t0, t1, url, http, vrc) ==
    IF ~w.ok THEN w
    ELSE IF w.poisoned THEN Panic(w)
    ELSE LET r == DetectionTree(w, t0, url, http, vrc)
             w1 == CalledParameters(w, r, t0)
         IN IF r.res = "Err" THEN Panic(w1)
            ELSE LET w2 == [CalledClear(w1, t1) EXCEPT !.tree = Some(r.val)] IN
                 IF json_path_exists(r.val, "PregnancySave")
                   THEN EnterActive(w2, url, http, vrc)
                   ELSE LeaveActive(w2)

\* --------------------------------------------------- PregancyHandler::handle
OscMessage(addr, arg) == [kind |-> "Message", addr |-> addr, arg |-> arg]
OscBundle == [kind |-> "Bundle", addr |-> "", arg |-> OscOther]

\* The addresses handle has an arm for.
InboundAddresses ==
    {"/avatar/parameters/Childcount", "/avatar/parameters/GestationTime",
     "/avatar/parameters/Gestation", "/avatar/change"}

\* The match as it would be if it ignored the case of the letters.
match_arm_caseless(addr) ==
    IF addr = "/avatar/parameters/ChildCount" THEN "/avatar/parameters/Childcount"
    ELSE IF addr \in InboundAddresses THEN addr ELSE "_"

\* match msg.addr.as_str(): the arm taken, "_" for every other address.
match_arm(addr) == IF addr \in InboundAddresses THEN addr ELSE "_"

\* t is the instant the handler reads, t1 the instant avatar detection reads
\* after its request, http what a request comes to.
handle(w, packet, t, t1, url, http, vrc) ==
    IF packet.kind = "Bundle" THEN w
    ELSE LET osc_value == auto_convert(packet.arg) IN
      CASE match_arm(packet.addr) = "/avatar/parameters/Childcount" ->
             IF get_system_active(w)
               THEN IF parse_u8(osc_value) = None THEN Panic(w)
                    ELSE save_data(child_counter(w, Unwrap(parse_u8(osc_value)), t),
                                   url, http, vrc)
               ELSE w
        [] match_arm(packet.addr) = "/avatar/parameters/GestationTime" ->
             IF get_system_active(w)
               THEN IF parse_f32(osc_value) = None THEN Panic(w)
                    ELSE save_data(set_gestation_time(w, Unwrap(parse_f32(osc_value))),
                                   url, http, vrc)
               ELSE w
        [] match_arm(packet.addr) = "/avatar/parameters/Gestation" ->
             IF get_system_active(w)
               THEN IF parse_u8(osc_value) = None THEN Panic(w)
                    ELSE save_data(set_gestation_type(w, Unwrap(parse_u8(osc_value))),
                                   url, http, vrc)
               ELSE w
        [] match_arm(packet.addr) = "/avatar/change" ->
             check_avatar_oscquery(w, t, t1, url, http, vrc)
        [] OTHER -> w

\* ------------------------------------------------------- the receive loop
\* main: the handlers registered with OscServer::start, in order.
Handlers == <<"PregancyHandler">>

\* What recv_from reads: the encoding of a packet, or bytes that are none.
Encoded(packet) == [kind |-> "Datagram", packet |-> packet]
Garbage == [kind |-> "Garbage", packet |-> OscBundle]

\* rosc::decoder::decode_udp: Result<OscPacket> as an option.
decode_udp(datagram) ==
    IF datagram.kind = "Datagram" THEN Some(datagram.packet) ELSE None

\* for handler in &handlers { handler.handle(packet.clone()) }: a panic of a
\* handler ends the thread before the next handler is called.
RECURSIVE dispatch(_, _, _, _, _, _, _, _)
dispatch(w, handlers, packet, t, t1, url, http, vrc) ==
    IF handlers = <<>> \/ ~w.ok THEN w
    ELSE dispatch([handle(w, packet, t, t1, url, http, vrc)
                     EXCEPT !.handled = Append(@, Head(handlers))],
                  Tail(handlers), packet, t, t1, url, http, vrc)

\* The turn as it would be if a datagram that fails to decode ended the loop.
receive_datagram_break(w, datagram, t, t1, url, http, vrc) ==
    IF decode_udp(datagram) = None THEN Panic(w)
    ELSE dispatch(w, Handlers, Unwrap(decode_udp(datagram)), t, t1, url, http, vrc)

\* One turn of the receive loop on a datagram: if let Ok(packet) = decode_udp
\* the handlers are called, otherwise nothing is.
receive_datagram(w, datagram, t, t1, url, http, vrc) ==
    IF decode_udp(datagram) = None THEN w
    ELSE dispatch(w, Handlers, Unwrap(decode_udp(datagram)), t, t1, url, http, vrc)

\* ------------------------------------------------------------ PregUI::update
\* One redraw with at most one input ("none": a redraw alone, also of a
\* frame that panics before it reaches its widgets). The frame first copies the record and
\* asks the cache for the avatar id; the widgets shown depend on the copy.
UiInputs == {"none", "reset", "type", "time", "add", "remove", "recheck"}

FrameStart(w, url, http, vrc) ==
    IF w.poisoned THEN Panic(w)
    ELSE LET r == get_avatar_id(w.cache, url, http, vrc)
             w1 == CalledId(w, r)
         IN IF r.res = "Err" THEN PanicHoldingCache(w1) ELSE w1

\* Whether the widget of the input is shown for the copy child_data.
Shown(child_data, input) ==
    CASE input \in {"none", "recheck"} -> TRUE
      [] input = "reset" ->
           IsSome(child_data) /\ Unwrap(child_data).number_of_childern > 0
      [] OTHER -> IsSome(child_data)

\* The duration a change of unit to ty gives: the same span in the new unit.
ConvertedTime(child, ty) ==
    (seconds_per_unit(child.gestation) * child.gestation_time) \div seconds_per_unit(ty)

AddChild(w, t, url, http, vrc) ==
    LET child_count == get_child_count(w)
        w1 == IF get_conception_time(w) = None THEN set_conception_time(w, t) ELSE w
    IN IF child_count < MAX_CHILDREN
         THEN save_data(set_child_count(w1, child_count + 1), url, http, vrc)
         ELSE w1

\* RemoveChild as it would be if every removal cleared the conception time.
RemoveChild_alwaysClear(w, url, http, vrc) ==
    LET child_count == get_child_count(w) IN
    IF child_count # 0
      THEN save_data(set_child_count(clear_conception_time(w), child_count - 1),
                     url, http, vrc)
      ELSE w

RemoveChild(w, url, http, vrc) ==
    LET child_count == get_child_count(w) IN
    IF child_count # 0
      THEN LET w1 == IF child_count = 1 THEN clear_conception_time(w) ELSE w
           IN save_data(set_child_count(w1, child_count - 1), url, http, vrc)
      ELSE w

\* arg carries the new unit (input "type") or the new duration (input "time").
update(w, input, arg, t, t1, url, http, vrc) ==
    LET child_data == get_child_data(w)
        w0 == FrameStart(w, url, http, vrc)
    IN IF ~w0.ok THEN w0
       ELSE CASE input = "reset" -> save_data(set_conception_time(w0, t), url, http, vrc)
              [] input = "type" ->
                   set_gestation_type(
                       set_gestation_time(w0, ConvertedTime(Unwrap(child_data), arg)),
                       GestationType_as_int(arg))
              [] input = "time" -> save_data(set_gestation_time(w0, arg), url, http, vrc)
              [] input = "add" -> AddChild(w0, t, url, http, vrc)
              [] input = "remove" -> RemoveChild(w0, url, http, vrc)
              [] input = "recheck" -> check_avatar_oscquery(w0, t, t1, url, http, vrc)
              [] OTHER -> w0

\* ------------------------------------------------------------------ inputs
\* The arguments tried with each inbound address: values that parse, values
\* out of range of the target type, and values that are no integer.
ChildcountArgs == {OscInt(1), OscInt(2), OscInt(200), OscInt(-1), OscFloat(5)}
GestationTimeArgs == {OscFloat(5), OscFloat(0), OscFloat(-5), OscBool}
GestationArgs == {OscInt(1), OscInt(7), OscInt(-1), OscInt(300), OscFloat(5)}

Packets ==
    {OscMessage("/avatar/parameters/Childcount", x) : x \in ChildcountArgs}
      \cup {OscMessage("/avatar/parameters/GestationTime", x) : x \in GestationTimeArgs}
      \cup {OscMessage("/avatar/parameters/Gestation", x) : x \in GestationArgs}
      \cup {OscMessage("/avatar/change", OscOther),
            OscMessage("/avatar/parameters/ChildCount", OscInt(1)),
            OscBundle}

\* The durations the drag widget can give (its range starts at 0.01).
DragValues == {3}
\* The units picked in the unit selector.
UiTypes == {"Days", "Mins"}

Ticks == 0..MaxTick
\* The instants a request started at t can return at.
After(t) == {t1 \in Ticks : t <= t1 /\ t1 <= t + 1}

NoArg == [t |-> "None", v |-> 0]

\* The handler's get_avatar_parameters call made a request that succeeded:
\* the cache holds its answer under the stamp of the call.
Fetched(w) ==
    /\ IsSome(w.params)
    /\ Unwrap(w.params).http
    /\ Unwrap(w.params).after.last_fetched = Some(Unwrap(w.params).at)
    /\ IsSome(Unwrap(w.params).after.cached_data)

\* The entry points that run check_avatar_oscquery.
DetectionOps == {"start", "/avatar/change", "recheck"}

\* What the handler that ran last is remembered by; fetch is the last
\* successful fetch of the parameter tree so far (its stamp and its data),
\* pre_fetch the one before the handler ran; loaded is the avatar id under
\* which the last detection that entered Active took the record from the
\* store.
Seen(op, arg, w) ==
    [op |-> op, arg |-> arg, ok |-> w.ok, pre_active |-> SystemActive,
     pre_data |-> ChildData, pre_file |-> save_file, pre_cache |-> CACHE,
     tree |-> w.tree, id |-> w.id, sent |-> w.sent, at |-> now,
     url |-> OSC_QUERY, http |-> vrc_http,
     params |-> w.params, cleared |-> w.cleared, ids |-> w.ids,
     handled |-> w.handled, io |-> w.io,
     loaded |-> IF op \in DetectionOps /\ IsSome(w.id) THEN w.id ELSE last.loaded,
     pre_fetch |-> last.fetch,
     fetch |-> IF Fetched(w) THEN Some([at |-> Unwrap(w.params).at,
                                        data |-> Unwrap(w.params).val])
               ELSE last.fetch]

\* The program state after a handler that leaves the world as w.
Commit(w) ==
    /\ SystemActive' = w.active
    /\ ChildData' = w.data
    /\ save_file' = w.file
    /\ CACHE' = w.cache
    /\ cache_poisoned' = w.poisoned

Threads == {"recv", "ui"}

\* A thread's locals: value (the parsed argument), child_count and child_data
\* (what it read of the record), data (the store it read), tree and id (what
\* the cache returned to it).
NoLocals ==
    [op |-> "", value |-> 0, child_count |-> 0, child_data |-> None,
     data |-> [id \in AvatarIds |-> None], tree |-> JsonNull, id |-> ""]

\* save_data.json outlives the process: at start it is absent (empty) or holds
\* what an earlier session saved.
EmptyStore == [id \in AvatarIds |-> None]
SavedStores ==
    {EmptyStore,
     [EmptyStore EXCEPT !["avtr_a"] = Some(ChildInfo_default),
                        !["avtr_b"] = Some(ChildInfo(Some(0), 16, "Hours", 2))]}

\* The broadcast thread before PregancyHandler::start spawns it, and as
\* spawned: at the top of its loop. gestation_time and gestation are what
\* get_gestation_progress_fraction has read so far, slept is the instant its
\* sleep began, sent is the PregnancySave message it sent last together with
\* the state at that moment.
NoBcast ==
    [pc |-> "off", gestation_time |-> 0, gestation |-> "Hours", slept |-> 0,
     sent |-> None]
Spawned == [NoBcast EXCEPT !.pc = "b_active"]

\* The threads that take the shared mutexes: the receive thread, the
\* broadcast loop it spawns, the UI (main) thread and the set-up task that
\* records the peer's address. Each starts outside every entry point,
\* holding no guard.
LockThreads == {"recv", "bcast", "ui", "setup"}
NoGuards == [th \in LockThreads |-> [held |-> {}, todo |-> <<>>]]

\* The process with its receive thread at r.
InitAt(r) ==
    /\ SystemActive = FALSE
    /\ ChildData = None
    /\ save_file \in SavedStores
    /\ CACHE = OscQueryCache_new
    /\ cache_poisoned = FALSE
    /\ OSC_QUERY = FALSE
    /\ vrc_avatar \in VrcAvatars
    /\ vrc_http = "ok"
    /\ now = 0
    /\ recv = r
    /\ ui = "run"
    /\ locals = [th \in Threads |-> NoLocals]
    /\ bcast = NoBcast
    /\ guards = NoGuards
    /\ ops = 0
    /\ last = [op |-> "init", arg |-> NoArg, ok |-> TRUE, pre_active |-> FALSE,
               pre_data |-> None, pre_file |-> EmptyStore,
               pre_cache |-> OscQueryCache_new,
               tree |-> None, id |-> None, sent |-> <<>>, at |-> 0,
               url |-> FALSE, http |-> "ok",
               params |-> None, cleared |-> None, ids |-> <<>>,
               handled |-> <<>>, io |-> <<>>,
               loaded |-> None, pre_fetch |-> None, fetch |-> None]

\* The receive thread has slept its warm-up and is about to call the start
\* hooks.
Init == InitAt("start")

\* ------------------------------------------------------------- environment
Tick ==
    /\ ui # "dead" /\ now < MaxTick
    /\ now' = now + 1
    /\ UNCHANGED <<SystemActive, ChildData, save_file, CACHE, cache_poisoned,
                   OSC_QUERY, vrc_avatar, vrc_http, recv, ui, locals, bcast, guards, ops, last>>

\* The peer changes avatar.
VrcChangeAvatar ==
    /\ ui # "dead" /\ ops < MaxOps
    /\ \E a \in VrcAvatars \ {vrc_avatar} : vrc_avatar' = a
    /\ ops' = ops + 1
    /\ UNCHANGED <<SystemActive, ChildData, save_file, CACHE, cache_poisoned,
                   OSC_QUERY, vrc_http, now, recv, ui, locals, bcast, guards, last>>

\* The peer's metadata endpoint starts to answer differently.
VrcHttp ==
    /\ ui # "dead" /\ ops < MaxOps
    /\ \E h \in HttpOutcomes \ {vrc_http} : vrc_http' = h
    /\ ops' = ops + 1
    /\ UNCHANGED <<SystemActive, ChildData, save_file, CACHE, cache_poisoned,
                   OSC_QUERY, vrc_avatar, now, recv, ui, locals, bcast, guards, last>>

\* Discovery records the metadata endpoint (OscServer::set_vrc_address).
SetVrcAddress ==
    /\ ui # "dead" /\ ops < MaxOps /\ ~OSC_QUERY
    /\ OSC_QUERY' = TRUE
    /\ ops' = ops + 1
    /\ UNCHANGED <<SystemActive, ChildData, save_file, CACHE, cache_poisoned,
                   vrc_avatar, vrc_http, now, recv, ui, locals, bcast, guards, last>>

\* ------------------------------------------------------- the receive thread
\* PregancyHandler::start, called once before the receive loop: its last
\* statement is check_avatar_oscquery().unwrap().
Start ==
    /\ ui = "run" /\ recv = "start" /\ ops < MaxOps
    /\ \E t1 \in After(now) :
         LET w == check_avatar_oscquery(World, now, t1, OSC_QUERY, vrc_http, vrc_avatar) IN
           /\ Commit(w)
           /\ now' = t1
           /\ recv' = IF w.ok THEN "loop" ELSE "dead"
           /\ last' = Seen("start", NoArg, w)
    /\ bcast' = Spawned
    /\ ops' = ops + 1
    /\ UNCHANGED <<OSC_QUERY, vrc_avatar, vrc_http, ui, locals, guards>>

\* The instants avatar detection can read after its request; the other
\* handlers read the clock once.
Latency(detects) == IF detects THEN After(now) ELSE {now}

\* The datagrams the socket delivers.
Datagrams == {Encoded(packet) : packet \in Packets} \cup {Garbage}

\* What a datagram is remembered by: the address and the argument of its
\* packet, or that it did not decode.
DatagramOp(datagram) ==
    IF decode_udp(datagram) = None THEN "undecodable"
    ELSE Unwrap(decode_udp(datagram)).addr
DatagramArg(datagram) ==
    IF decode_udp(datagram) = None THEN NoArg ELSE Unwrap(decode_udp(datagram)).arg

\* One turn of the receive loop: recv_from returns a datagram.
Receive ==
    /\ ui = "run" /\ recv = "loop" /\ ops < MaxOps
    /\ \E datagram \in Datagrams :
         \E t1 \in Latency(DatagramOp(datagram) = "/avatar/change") :
           LET w == receive_datagram(World, datagram, now, t1, OSC_QUERY, vrc_http,
                                     vrc_avatar) IN
             /\ Commit(w)
             /\ now' = t1
             /\ recv' = IF w.ok THEN "loop" ELSE "dead"
             /\ last' = Seen(DatagramOp(datagram), DatagramArg(datagram), w)
    /\ ops' = ops + 1
    /\ UNCHANGED <<OSC_QUERY, vrc_avatar, vrc_http, ui, locals, bcast, guards>>

\* recv_from returns an error: the loop logs it and breaks, the thread ends.
ReceiveError ==
    /\ ui = "run" /\ recv = "loop" /\ ops < MaxOps
    /\ recv' = "stopped"
    /\ last' = Seen("recv_error", NoArg, World)
    /\ ops' = ops + 1
    /\ UNCHANGED <<SystemActive, ChildData, save_file, CACHE, cache_poisoned,
                   OSC_QUERY, vrc_avatar, vrc_http, now, ui, locals, bcast, guards>>

\* ------------------------------------------------------------ the UI thread
UiArgs(input) ==
    CASE input = "type" -> UiTypes
      [] input = "time" -> DragValues
      [] OTHER -> {0}

UiArgSeen(input, arg) ==
    CASE input = "type" -> OscInt(GestationType_as_int(arg))
      [] input = "time" -> OscFloat(arg)
      [] OTHER -> NoArg

\* A unit change is taken only where the converted duration is a whole
\* number of half units.
Representable(child_data, input, arg) ==
    input = "type" =>
        (seconds_per_unit(Unwrap(child_data).gestation) * Unwrap(child_data).gestation_time)
            % seconds_per_unit(arg) = 0

Update ==
    /\ ui = "run" /\ ops < MaxOps
    /\ \E input \in UiInputs :
         /\ Shown(ChildData, input)
         /\ \E arg \in UiArgs(input), t1 \in Latency(input = "recheck") :
              /\ Representable(ChildData, input, arg)
              /\ LET w == update(World, input, arg, now, t1, OSC_QUERY,
                                 vrc_http, vrc_avatar) IN
                   /\ Commit(w)
                   /\ now' = t1
                   /\ ui' = IF w.ok THEN "run" ELSE "dead"
                   /\ last' = IF FrameStart(World, OSC_QUERY, vrc_http, vrc_avatar).ok
                                THEN Seen(input, UiArgSeen(input, arg), w)
                                ELSE Seen("none", NoArg, w)
    /\ ops' = ops + 1
    /\ UNCHANGED <<OSC_QUERY, vrc_avatar, vrc_http, recv, locals, bcast, guards>>

Next ==
    \/ Tick \/ VrcChangeAvatar \/ VrcHttp \/ SetVrcAddress \/ Start \/ Receive
    \/ ReceiveError \/ Update

Spec == Init /\ [][Next]_vars

\* ------------------------------------------ the threads, statement by statement
\* The same handlers with one action per access to the shared state (one
\* critical section of a mutex, or one access to the save file), so that the
\* receive thread and the UI thread interleave as the scheduler allows.
pc(th) == IF th = "recv" THEN recv ELSE ui
Idle(th) == IF th = "recv" THEN "loop" ELSE "run"
At(th, label) == ui # "dead" /\ pc(th) = label

\* Thread th moves to label with locals loc.
Goto(th, label, loc) ==
    /\ recv' = IF th = "recv" THEN label ELSE recv
    /\ ui' = IF th = "ui" THEN label ELSE ui
    /\ locals' = [locals EXCEPT ![th] = loc]

\* The step leaves the world as w: the thread goes on to label, or dies when
\* the statement panicked.
Then(th, w, label, loc) == Commit(w) /\ Goto(th, IF w.ok THEN label ELSE "dead", loc)

Untouched == UNCHANGED <<OSC_QUERY, vrc_avatar, vrc_http, now, last, bcast, guards>>
SameState == UNCHANGED <<SystemActive, ChildData, save_file, CACHE, cache_poisoned>>

\* The packets and UI inputs the interleaved threads are given.
ConcValues == {1, 2}
ConcInputs == {"none", "add", "remove", "reset", "recheck"}

\* PregancyHandler::start spawns the broadcast loop and reaches
\* check_avatar_oscquery(). eframe::run_native before them is the second
\* call of the process (main made the first): it returns an error at once,
\* which `let _` drops. The hook runs once, whatever has occurred before,
\* and counts as an event while the count is below its bound.
T_Start ==
    /\ At("recv", "start")
    /\ Goto("recv", "det_params", [NoLocals EXCEPT !.op = "start"])
    /\ bcast' = Spawned
    /\ ops' = IF ops < MaxOps THEN ops + 1 ELSE ops
    /\ SameState
    /\ UNCHANGED <<OSC_QUERY, vrc_avatar, vrc_http, now, last, guards>>

\* handle, child-count message: get_system_active() and the parse.
T_ReceiveChildcount ==
    /\ At("recv", "loop") /\ ops < MaxOps
    /\ \E value \in ConcValues :
         LET osc_value == auto_convert(OscInt(value)) IN
           Goto("recv",
                IF ~get_system_active(World) THEN "loop"
                ELSE IF parse_u8(osc_value) = None THEN "dead"
                ELSE "cc_count",
                [NoLocals EXCEPT !.op = "/avatar/parameters/Childcount",
                                 !.value = value])
    /\ ops' = ops + 1
    /\ SameState /\ Untouched

\* handle, avatar-change message.
T_ReceiveChange ==
    /\ At("recv", "loop") /\ ops < MaxOps
    /\ Goto("recv", "det_params", [NoLocals EXCEPT !.op = "/avatar/change"])
    /\ ops' = ops + 1
    /\ SameState /\ Untouched

\* child_counter: value > get_child_count()
T_CounterCompare ==
    /\ At("recv", "cc_count")
    /\ Goto("recv",
            IF locals["recv"].value > get_child_count(World) THEN "cc_set" ELSE "save_read",
            [locals["recv"] EXCEPT !.child_count = get_child_count(World)])
    /\ SameState /\ Untouched /\ UNCHANGED ops

\* child_counter: set_child_count(value)
T_CounterSet ==
    /\ At("recv", "cc_set")
    /\ Then("recv", set_child_count(World, locals["recv"].value), "cc_getct", locals["recv"])
    /\ Untouched /\ UNCHANGED ops

\* child_counter: get_conception_time() == None
T_CounterGetConception ==
    /\ At("recv", "cc_getct")
    /\ Goto("recv",
            IF get_conception_time(World) = None THEN "cc_setct" ELSE "save_read",
            locals["recv"])
    /\ SameState /\ Untouched /\ UNCHANGED ops

\* child_counter: set_conception_time(Local::now())
T_CounterStamp ==
    /\ At("recv", "cc_setct")
    /\ Then("recv", set_conception_time(World, now), "save_read", locals["recv"])
    /\ Untouched /\ UNCHANGED ops

\* save_data: read_data()
T_SaveRead ==
    \E th \in Threads :
      /\ At(th, "save_read")
      /\ Goto(th, "save_id", [locals[th] EXCEPT !.data = save_file])
      /\ SameState /\ Untouched /\ UNCHANGED ops

\* save_data: get_mut(get_avatar_id().unwrap().expect()).unwrap()
T_SaveId ==
    \E th \in Threads :
      /\ At(th, "save_id")
      /\ LET r == get_avatar_id(CACHE, OSC_QUERY, vrc_http, vrc_avatar)
             w == [World EXCEPT !.cache = r.cache]
         IN IF cache_poisoned THEN Then(th, Panic(World), "", locals[th])
            ELSE IF r.res = "Err" \/ r.val = None
              THEN Then(th, PanicHoldingCache(w), "", locals[th])
            ELSE IF locals[th].data[Unwrap(r.val)] = None
              THEN Then(th, PanicHoldingCache(w), "", locals[th])
            ELSE Then(th, w, "save_get", [locals[th] EXCEPT !.id = Unwrap(r.val)])
      /\ Untouched /\ UNCHANGED ops

\* save_data: *child_data = get_child_data().unwrap()
T_SaveGet ==
    \E th \in Threads :
      /\ At(th, "save_get")
      /\ IF get_child_data(World) = None
           THEN Goto(th, "dead", locals[th])
           ELSE Goto(th, "save_write",
                     [locals[th] EXCEPT !.data[locals[th].id] = get_child_data(World)])
      /\ SameState /\ Untouched /\ UNCHANGED ops

\* save_data: save_data_writer(&save_data)
T_SaveWrite ==
    \E th \in Threads :
      /\ At(th, "save_write")
      /\ save_file' = save_data_writer(locals[th].data)
      /\ Goto(th, Idle(th), locals[th])
      /\ UNCHANGED <<SystemActive, ChildData, CACHE, cache_poisoned>>
      /\ Untouched /\ UNCHANGED ops

\* update: let child_data = get_child_data()
T_Frame ==
    /\ At("ui", "run") /\ ops < MaxOps
    /\ Goto("ui", "frame_id", [NoLocals EXCEPT !.child_data = get_child_data(World)])
    /\ ops' = ops + 1
    /\ SameState /\ Untouched

\* update: get_avatar_id().unwrap(), then the widget that took an input, one
\* of inputs.
FrameInput(inputs) ==
    /\ At("ui", "frame_id")
    /\ \E input \in inputs :
         /\ Shown(locals["ui"].child_data, input)
         /\ Then("ui", FrameStart(World, OSC_QUERY, vrc_http, vrc_avatar),
                 CASE input = "add" -> "add_count"
                   [] input = "remove" -> "rm_count"
                   [] input = "reset" -> "reset_set"
                   [] input = "recheck" -> "det_params"
                   [] OTHER -> "run",
                 [locals["ui"] EXCEPT !.op = input])
    /\ Untouched /\ UNCHANGED ops

T_FrameInput == FrameInput(ConcInputs)

\* The same frame when the user keeps to Add Child, Remove Child and Reset.
T_FrameRecordInput == FrameInput(ConcInputs \ {"recheck"})

\* Reset Pregancy: set_conception_time(Local::now())
T_ResetStamp ==
    /\ At("ui", "reset_set")
    /\ Then("ui", set_conception_time(World, now), "save_read", locals["ui"])
    /\ Untouched /\ UNCHANGED ops

\* Add Child: let child_count = get_child_count()
T_AddCount ==
    /\ At("ui", "add_count")
    /\ Goto("ui", "add_getct", [locals["ui"] EXCEPT !.child_count = get_child_count(World)])
    /\ SameState /\ Untouched /\ UNCHANGED ops

\* Add Child: get_conception_time().is_none(); then child_count < 12
T_AddGetConception ==
    /\ At("ui", "add_getct")
    /\ Goto("ui",
            IF get_conception_time(World) = None THEN "add_setct"
            ELSE IF locals["ui"].child_count < MAX_CHILDREN THEN "add_set" ELSE "run",
            locals["ui"])
    /\ SameState /\ Untouched /\ UNCHANGED ops

\* Add Child: set_conception_time(Local::now()); then child_count < 12
T_AddStamp ==
    /\ At("ui", "add_setct")
    /\ Then("ui", set_conception_time(World, now),
            IF locals["ui"].child_count < MAX_CHILDREN THEN "add_set" ELSE "run",
            locals["ui"])
    /\ Untouched /\ UNCHANGED ops

\* Add Child: set_child_count(child_count + 1)
T_AddSet ==
    /\ At("ui", "add_set")
    /\ Then("ui", set_child_count(World, locals["ui"].child_count + 1), "save_read",
            locals["ui"])
    /\ Untouched /\ UNCHANGED ops

\* Remove Child: let child_count = get_child_count(); != 0; == 1
T_RemoveCount ==
    /\ At("ui", "rm_count")
    /\ LET child_count == get_child_count(World) IN
         Goto("ui",
              IF child_count = 0 THEN "run"
              ELSE IF child_count = 1 THEN "rm_clear" ELSE "rm_set",
              [locals["ui"] EXCEPT !.child_count = child_count])
    /\ SameState /\ Untouched /\ UNCHANGED ops

\* Remove Child: clear_conception_time()
T_RemoveClear ==
    /\ At("ui", "rm_clear")
    /\ Then("ui", clear_conception_time(World), "rm_set", locals["ui"])
    /\ Untouched /\ UNCHANGED ops

\* Remove Child: set_child_count(child_count - 1)
T_RemoveSet ==
    /\ At("ui", "rm_set")
    /\ Then("ui", set_child_count(World, locals["ui"].child_count - 1), "save_read",
            locals["ui"])
    /\ Untouched /\ UNCHANGED ops

\* check_avatar_oscquery: get_osc_query_cache().get_avatar_parameters()?
T_DetParams ==
    \E th \in Threads :
      /\ At(th, "det_params")
      /\ LET r == get_avatar_parameters(CACHE, now, OSC_QUERY, vrc_http, vrc_avatar)
             w == [World EXCEPT !.cache = r.cache]
         IN IF cache_poisoned THEN Then(th, Panic(World), "", locals[th])
            ELSE IF r.res = "Err" THEN Then(th, Panic(w), "", locals[th])
            ELSE Then(th, w, "det_clear", [locals[th] EXCEPT !.tree = r.val])
      /\ Untouched /\ UNCHANGED ops

\* check_avatar_oscquery: clear_avatar(); json_path_exists(&data, ...)
T_DetClear ==
    \E th \in Threads :
      /\ At(th, "det_clear")
      /\ IF cache_poisoned THEN Then(th, Panic(World), "", locals[th])
         ELSE Then(th, [World EXCEPT !.cache = clear_avatar(CACHE, now)],
                   IF json_path_exists(locals[th].tree, "PregnancySave")
                     THEN "det_read" ELSE "det_deactivate",
                   locals[th])
      /\ Untouched /\ UNCHANGED ops

\* check_avatar_oscquery: let mut data = read_data()?
T_DetRead ==
    \E th \in Threads :
      /\ At(th, "det_read")
      /\ Goto(th, "det_load", [locals[th] EXCEPT !.data = save_file])
      /\ SameState /\ Untouched /\ UNCHANGED ops

\* check_avatar_oscquery: set_child_data(*data.avatar_ids.entry(id).or_insert(..)),
\* with the guard of CACHE alive over the whole statement.
T_DetLoad ==
    \E th \in Threads :
      /\ At(th, "det_load")
      /\ LET r == get_avatar_id(CACHE, OSC_QUERY, vrc_http, vrc_avatar)
             w == [World EXCEPT !.cache = r.cache]
         IN IF cache_poisoned THEN Then(th, Panic(World), "", locals[th])
            ELSE IF r.res = "Err" \/ r.val = None
              THEN Then(th, PanicHoldingCache(w), "", locals[th])
            ELSE LET id == Unwrap(r.val)
                     data == or_insert(locals[th].data, id)
                 IN Then(th, set_child_data(w, Unwrap(data[id])), "det_activate",
                         [locals[th] EXCEPT !.data = data, !.id = id])
      /\ last' = LET r == get_avatar_id(CACHE, OSC_QUERY, vrc_http, vrc_avatar) IN
                   IF ~cache_poisoned /\ r.res = "Ok" /\ IsSome(r.val)
                     THEN [last EXCEPT !.loaded = r.val] ELSE last
      /\ UNCHANGED <<OSC_QUERY, vrc_avatar, vrc_http, now, bcast, guards, ops>>

\* check_avatar_oscquery: set_system_active(true)
T_DetActivate ==
    \E th \in Threads :
      /\ At(th, "det_activate")
      /\ Then(th, set_system_active(World, TRUE), "det_send", locals[th])
      /\ Untouched /\ UNCHANGED ops

\* check_avatar_oscquery: the getters and the corrective messages.
T_DetSend ==
    \E th \in Threads :
      /\ At(th, "det_send")
      /\ Then(th, SendCorrective(World), "det_write", locals[th])
      /\ Untouched /\ UNCHANGED ops

\* check_avatar_oscquery: save_data_writer(&data)?
T_DetWrite ==
    \E th \in Threads :
      /\ At(th, "det_write")
      /\ save_file' = save_data_writer(locals[th].data)
      /\ Goto(th, Idle(th), locals[th])
      /\ UNCHANGED <<SystemActive, ChildData, CACHE, cache_poisoned>>
      /\ Untouched /\ UNCHANGED ops

\* check_avatar_oscquery: set_system_active(false)
T_DetDeactivate ==
    \E th \in Threads :
      /\ At(th, "det_deactivate")
      /\ Then(th, set_system_active(World, FALSE), "det_clearrec", locals[th])
      /\ Untouched /\ UNCHANGED ops

\* check_avatar_oscquery: clear_child_data()
T_DetClearRecord ==
    \E th \in Threads :
      /\ At(th, "det_clearrec")
      /\ Then(th, clear_child_data(World), Idle(th), locals[th])
      /\ Untouched /\ UNCHANGED ops

NextConc ==
    \/ Tick \/ VrcChangeAvatar \/ SetVrcAddress
    \/ T_Start \/ T_ReceiveChildcount \/ T_ReceiveChange
    \/ T_CounterCompare \/ T_CounterSet \/ T_CounterGetConception \/ T_CounterStamp
    \/ T_SaveRead \/ T_SaveId \/ T_SaveGet \/ T_SaveWrite
    \/ T_Frame \/ T_FrameInput \/ T_ResetStamp
    \/ T_AddCount \/ T_AddGetConception \/ T_AddStamp \/ T_AddSet
    \/ T_RemoveCount \/ T_RemoveClear \/ T_RemoveSet
    \/ T_DetParams \/ T_DetClear \/ T_DetRead \/ T_DetLoad \/ T_DetActivate
    \/ T_DetSend \/ T_DetWrite \/ T_DetDeactivate \/ T_DetClearRecord

SpecConc == Init /\ [][NextConc]_vars

\* The threads when the avatar stays as it is: detection runs once, from
\* start, and then only child-count messages and the record's UI actions
\* arrive.
NextRecord ==
    \/ Tick \/ SetVrcAddress
    \/ T_Start \/ T_ReceiveChildcount
    \/ T_CounterCompare \/ T_CounterSet \/ T_CounterGetConception \/ T_CounterStamp
    \/ T_SaveRead \/ T_SaveId \/ T_SaveGet \/ T_SaveWrite
    \/ T_Frame \/ T_FrameRecordInput \/ T_ResetStamp
    \/ T_AddCount \/ T_AddGetConception \/ T_AddStamp \/ T_AddSet
    \/ T_RemoveCount \/ T_RemoveClear \/ T_RemoveSet
    \/ T_DetParams \/ T_DetClear \/ T_DetRead \/ T_DetLoad \/ T_DetActivate
    \/ T_DetSend \/ T_DetWrite \/ T_DetDeactivate \/ T_DetClearRecord

SpecRecord == Init /\ [][NextRecord]_vars

\* ------------------------------------------------------ the broadcast thread
\* The loop PregancyHandler::start spawns, one action per critical section of
\* the SystemActive or ChildData mutex.
BAt(label) == ui # "dead" /\ bcast.pc = label

\* The step touches nothing but the broadcast thread.
BOnly ==
    /\ SameState
    /\ UNCHANGED <<OSC_QUERY, vrc_avatar, vrc_http, now, recv, ui, locals, ops, last,
                   guards>>

\* std::thread::sleep(Duration::from_secs(5)) begins.
Sleep(b) == [b EXCEPT !.pc = "b_sleep", !.slept = now]

\* send_osc_data("/avatar/parameters/PregnancySave", [Float(value)]), then the
\* sleep; the message is remembered with the state it was sent in.
SendPregnancySave(b, value) ==
    Sleep([b EXCEPT !.sent = Some([value |-> value,
                                   active |-> get_system_active(World),
                                   child_count |-> get_child_count(World),
                                   fraction |-> get_gestation_progress_fraction(World, now),
                                   at |-> now])])

\* if get_system_active().unwrap()
B_Active ==
    /\ BAt("b_active")
    /\ bcast' = IF get_system_active(World) THEN [bcast EXCEPT !.pc = "b_count"]
                ELSE Sleep(bcast)
    /\ BOnly

\* if get_child_count() > 0
B_Count ==
    /\ BAt("b_count")
    /\ bcast' = IF get_child_count(World) > 0 THEN [bcast EXCEPT !.pc = "b_frac_count"]
                ELSE Sleep(bcast)
    /\ BOnly

\* get_gestation_progress_fraction: if get_child_count() == 0 { return 0 }
B_FracCount ==
    /\ BAt("b_frac_count")
    /\ bcast' = IF get_child_count(World) = 0 THEN SendPregnancySave(bcast, Fraction(0, 1))
                ELSE [bcast EXCEPT !.pc = "b_frac_time"]
    /\ BOnly

\* get_gestation_progress_fraction: get_gestation_time()
B_FracTime ==
    /\ BAt("b_frac_time")
    /\ bcast' = [bcast EXCEPT !.pc = "b_frac_type",
                              !.gestation_time = get_gestation_time(World)]
    /\ BOnly

\* get_gestation_progress_fraction: get_gestation_type()
B_FracType ==
    /\ BAt("b_frac_type")
    /\ bcast' = [bcast EXCEPT !.pc = "b_frac_conception",
                              !.gestation = get_gestation_type(World)]
    /\ BOnly

\* get_gestation_progress_fraction: get_conception_time(), Local::now() and
\* the division; the value is sent.
B_FracConception ==
    /\ BAt("b_frac_conception")
    /\ bcast' = SendPregnancySave(bcast,
                    progress_fraction(1, bcast.gestation_time, bcast.gestation,
                                      get_conception_time(World), now))
    /\ BOnly

\* The sleep is over once 5 seconds have passed.
SLEEP_MS == 5000
B_Wake ==
    /\ BAt("b_sleep")
    /\ TimeMs(now) - TimeMs(bcast.slept) >= SLEEP_MS
    /\ bcast' = [bcast EXCEPT !.pc = "b_active"]
    /\ BOnly

Broadcast ==
    \/ B_Active \/ B_Count \/ B_FracCount \/ B_FracTime \/ B_FracType
    \/ B_FracConception \/ B_Wake

\* A frame in which the user presses Remove Child or nothing.
T_FrameRemoveInput == FrameInput({"none", "remove"})

\* The broadcast loop beside avatar detection and Remove Child.
NextBroadcast ==
    \/ Tick \/ VrcChangeAvatar \/ SetVrcAddress
    \/ T_Start \/ T_ReceiveChange
    \/ T_DetParams \/ T_DetClear \/ T_DetRead \/ T_DetLoad \/ T_DetActivate
    \/ T_DetSend \/ T_DetWrite \/ T_DetDeactivate \/ T_DetClearRecord
    \/ T_Frame \/ T_FrameRemoveInput
    \/ T_RemoveCount \/ T_RemoveClear \/ T_RemoveSet
    \/ T_SaveRead \/ T_SaveId \/ T_SaveGet \/ T_SaveWrite
    \/ B_Active \/ B_Count \/ B_FracCount \/ B_FracTime \/ B_FracType
    \/ B_FracConception \/ B_Wake

SpecBroadcast == Init /\ [][NextBroadcast]_vars

\* A frame in which the user presses nothing.
T_FrameNoInput == FrameInput({"none"})

\* The broadcast loop from the start of the process on, whatever the peer's
\* metadata endpoint answers: the start hook with its detection on the
\* receive thread, the frames of the UI thread, and the loop.
NextLive ==
    \/ Tick \/ VrcHttp \/ SetVrcAddress
    \/ T_Start
    \/ T_DetParams \/ T_DetClear \/ T_DetRead \/ T_DetLoad \/ T_DetActivate
    \/ T_DetSend \/ T_DetWrite \/ T_DetDeactivate \/ T_DetClearRecord
    \/ T_Frame \/ T_FrameNoInput
    \/ Broadcast

\* Time passes, the receive thread gets to the start hook after its warm-up,
\* and the scheduler runs the broadcast thread whenever it can step.
SpecLive ==
    /\ Init /\ [][NextLive]_vars
    /\ WF_vars(Tick) /\ WF_vars(T_Start) /\ WF_vars(Broadcast)

\* ------------------------------------------------- OscServer::start, Mode A
\* The steps of OscServer::start before the start hooks, the process having
\* begun at instant 0.
WARMUP_MS == 5000
StartupPhases == {"bind", "publish", "warmup", "start"}

\* UdpSocket::bind, UDP_SOCKET is set, the receive thread is spawned.
S_Bind ==
    /\ At("recv", "bind")
    /\ Goto("recv", "publish", NoLocals)
    /\ SameState /\ Untouched /\ UNCHANGED ops

\* The thread publishes the bound port (set_osc_port) and begins its warm-up.
S_Publish ==
    /\ At("recv", "publish")
    /\ Goto("recv", "warmup", NoLocals)
    /\ SameState /\ Untouched /\ UNCHANGED ops

\* sleep(Duration::from_secs(5)) is over; the start hooks are next.
S_WarmedUp ==
    /\ At("recv", "warmup")
    /\ TimeMs(now) >= WARMUP_MS
    /\ Goto("recv", "start", NoLocals)
    /\ SameState /\ Untouched /\ UNCHANGED ops

Detection ==
    \/ T_DetParams \/ T_DetClear \/ T_DetRead \/ T_DetLoad \/ T_DetActivate
    \/ T_DetSend \/ T_DetWrite \/ T_DetDeactivate \/ T_DetClearRecord

\* The receive thread from the call of OscServer::start on, with the peer's
\* metadata endpoint as it may be and avatar-change messages arriving.
NextStartup ==
    \/ Tick \/ VrcHttp \/ SetVrcAddress
    \/ S_Bind \/ S_Publish \/ S_WarmedUp
    \/ T_Start \/ Detection
    \/ T_ReceiveChange

\* Time passes and the scheduler runs the receive thread whenever it can step.
InitStartup == InitAt("bind")

SpecStartup ==
    /\ InitStartup /\ [][NextStartup]_vars
    /\ WF_vars(Tick) /\ WF_vars(S_Bind) /\ WF_vars(S_Publish) /\ WF_vars(S_WarmedUp)
    /\ WF_vars(T_Start) /\ WF_vars(Detection)

\* ------------------------------------------------------------- properties
\* The handler that ran last was avatar detection, and the tree it obtained
\* has (found) or lacks (~found) the expected subtree.
Detected(found) ==
    /\ last.op \in DetectionOps
    /\ IsSome(last.tree)
    /\ json_path_exists(Unwrap(last.tree), "PregnancySave") = found

\* The record the store held for id before the handler, or the default one.
StoredOrDefault(id) ==
    IF IsSome(last.pre_file[id])
      THEN Unwrap(last.pre_file[id])
      ELSE ChildInfo(None, 16, "Hours", 0)

UnitNumber(g) ==
    CASE g = "Hours" -> 0 [] g = "Days" -> 1 [] g = "Weeks" -> 2
      [] g = "Months" -> 3 [] g = "Mins" -> 4

EntryMessages(rec) ==
    <<[addr |-> "/avatar/parameters/GestationTime", arg |-> OscFloat(rec.gestation_time)],
      [addr |-> "/avatar/parameters/Gestation", arg |-> OscInt(UnitNumber(rec.gestation))]>>
    \o (IF rec.number_of_childern > 0
          THEN <<[addr |-> "/avatar/parameters/ChildCount",
                  arg |-> OscInt(rec.number_of_childern)],
                 [addr |-> "/avatar/parameters/IsPregnant", arg |-> OscBool]>>
          ELSE <<>>)

C4_EntryLoadsOrCreates ==
    (Detected(TRUE) /\ last.ok) =>
        /\ IsSome(last.id)
        /\ ChildData = Some(StoredOrDefault(Unwrap(last.id)))
        /\ save_file[Unwrap(last.id)] = ChildData
        /\ \A other \in AvatarIds \ {Unwrap(last.id)} :
             save_file[other] = last.pre_file[other]

C4_Witness ==
    /\ Detected(TRUE) /\ last.ok
    /\ IsSome(last.pre_file[Unwrap(last.id)])
    /\ Unwrap(ChildData).number_of_childern > 0
    /\ \E other \in AvatarIds \ {Unwrap(last.id)} : IsSome(save_file[other])

\* C5: after an avatar-change message whose detection obtained a tree lacking
\* the expected path, the system is Inactive, the current record is None and
\* the handler sent nothing.
C5_AbsentSubtreeDeactivates ==
    (last.op = "/avatar/change" /\ Detected(FALSE)) =>
        /\ last.ok
        /\ ~SystemActive
        /\ ChildData = None
        /\ last.sent = <<>>

C5_Witness ==
    /\ last.op = "/avatar/change" /\ Detected(FALSE)
    /\ last.pre_active /\ IsSome(last.pre_data)
    /\ ~SystemActive

\* The value of a child-count or unit message that carries a u8.
CarriesU8 == last.arg.t = "Int" /\ last.arg.v \in 0..255

\* C6: in Active, a child-count message with value v and current count c sets
\* the count to v when v > c, stamping the conception time with the current
\* time exactly when it was unset, and leaves the record unchanged when v <= c;
\* when handling completes the store's entry of the avatar equals the record.
C6_ChildCountMessage ==
    (last.op = "/avatar/parameters/Childcount" /\ last.pre_active /\ CarriesU8) =>
        LET pre == Unwrap(last.pre_data)
            v == last.arg.v
        IN /\ IsSome(ChildData)
           /\ v > pre.number_of_childern =>
                ChildData = Some([pre EXCEPT
                    !.number_of_childern = v,
                    !.conception_time =
                        IF pre.conception_time = None THEN Some(last.at) ELSE @])
           /\ v <= pre.number_of_childern => ChildData = last.pre_data
           /\ last.ok => IsSome(last.id) /\ save_file[Unwrap(last.id)] = ChildData

C6_Witness ==
    /\ last.op = "/avatar/parameters/Childcount" /\ last.pre_active /\ CarriesU8
    /\ last.ok
    /\ IsSome(Unwrap(last.pre_data).conception_time)
    /\ last.arg.v > Unwrap(last.pre_data).number_of_childern
    /\ Unwrap(Unwrap(ChildData).conception_time) < last.at

\* C7: while Inactive, a child-count, gestation-duration or gestation-unit
\* message, whatever its argument, changes neither system_active, the current
\* record nor the store, and sends nothing.
C7_InactiveIgnoresParameters ==
    (last.op \in {"/avatar/parameters/Childcount", "/avatar/parameters/GestationTime",
                  "/avatar/parameters/Gestation"}
       /\ ~last.pre_active) =>
        /\ last.ok
        /\ ~SystemActive
        /\ ChildData = last.pre_data
        /\ save_file = last.pre_file
        /\ last.sent = <<>>

C7_Witness ==
    /\ last.op = "/avatar/parameters/Gestation" /\ ~last.pre_active
    /\ last.arg = OscInt(-1)
    /\ \E id \in AvatarIds : IsSome(save_file[id])

\* The unit a raw wire value stands for: the member it names, else Hours.
UnitOf(arg) ==
    IF arg.t = "Int" /\ arg.v \in 0..4
      THEN CHOOSE g \in GestationTypes : UnitNumber(g) = arg.v
      ELSE "Hours"

\* C8: in Active, handling a gestation-unit message always completes and sets
\* the unit to the member the raw value names, or to Hours for every other
\* raw value.
C8_UnitMessageAlwaysCompletes ==
    (last.op = "/avatar/parameters/Gestation" /\ last.pre_active) =>
        /\ recv # "dead"
        /\ IsSome(ChildData)
        /\ Unwrap(ChildData).gestation = UnitOf(last.arg)

\* C9: Remove Child on a record with count c > 0 lowers the count to c-1,
\* keeps the conception time when c-1 > 0 and clears it when c-1 = 0; with
\* c = 0 it changes nothing.
C9_RemoveChild ==
    last.op = "remove" =>
        LET pre == Unwrap(last.pre_data)
            c == pre.number_of_childern
        IN /\ c > 0 =>
                ChildData = Some([pre EXCEPT
                    !.number_of_childern = c - 1,
                    !.conception_time = IF c - 1 = 0 THEN None ELSE @])
           /\ c = 0 => ChildData = last.pre_data /\ save_file = last.pre_file

C9_Witness ==
    /\ last.op = "remove"
    /\ Unwrap(last.pre_data).number_of_childern = 2
    /\ IsSome(Unwrap(last.pre_data).conception_time)
    /\ Unwrap(ChildData).number_of_childern = 1

\* C10: the current record's child count is always within 0..=12.
C10_ChildCountInRange ==
    IsSome(ChildData) => Unwrap(ChildData).number_of_childern \in 0..MAX_CHILDREN

\* Both threads are between handlers: nothing is half-done.
Quiescent == recv = "loop" /\ ui = "run"

\* C1: under any interleaving of child-count messages and the UI actions,
\* the current record has conception_time unset iff its child count is 0.
\* Stated where no handler is mid-way, so that the steps inside one handler
\* do not count against it.
C1_ConceptionIffChildren ==
    (Quiescent /\ IsSome(ChildData)) =>
        (Unwrap(ChildData).conception_time = None
           <=> Unwrap(ChildData).number_of_childern = 0)

\* C2: also while detection runs from both threads, Active implies that the
\* current record is populated. Stated where no handler is mid-way.
C2_ActiveHasRecord == (Quiescent /\ SystemActive) => IsSome(ChildData)

\* C11: the current record's gestation duration is always strictly positive,
\* whatever value an inbound gestation-duration message carries.
C11_GestationTimePositive ==
    IsSome(ChildData) => Unwrap(ChildData).gestation_time > 0

\* The progress fraction of the current record at instant t.
ProgressAt(t) == get_gestation_progress_fraction([World EXCEPT !.data = ChildData], t)

\* C12: for the current record and every current time the progress fraction
\* is within [0, 1], it is 0 when the count is 0 or the conception time is
\* unset, and it does not decrease as the current time advances.
C12_ProgressFractionInUnit ==
    IsSome(ChildData) =>
        /\ \A t \in Ticks : t >= now =>
             /\ FracLeq(Fraction(0, 1), ProgressAt(t))
             /\ FracLeq(ProgressAt(t), Fraction(1, 1))
             /\ (Unwrap(ChildData).number_of_childern = 0
                   \/ Unwrap(ChildData).conception_time = None)
                  => ProgressAt(t).n = 0
        /\ \A t1, t2 \in Ticks :
             (now <= t1 /\ t1 <= t2) => FracLeq(ProgressAt(t1), ProgressAt(t2))

\* The get_avatar_parameters call of the handler that ran last, and how long
\* after the stamp of the last successful fetch before it the call was made.
ParamsCall == Unwrap(last.params)
SinceFetch == TimeMs(ParamsCall.at) - TimeMs(Unwrap(last.pre_fetch).at)
CalledAfterFetch == IsSome(last.params) /\ IsSome(last.pre_fetch)

\* C13 as claimed: any call made less than 5 s after a successful fetch
\* returns the data of that fetch with no HTTP request; a call made 5 s or
\* more after the last successful fetch makes a new request.
C13_WithinTtlNoRequest ==
    CalledAfterFetch =>
        /\ SinceFetch < CACHE_TTL_MS =>
             /\ ~ParamsCall.http
             /\ ParamsCall.res = "Ok"
             /\ ParamsCall.val = Unwrap(last.pre_fetch).data
        /\ (SinceFetch >= CACHE_TTL_MS /\ last.url) => ParamsCall.http

\* C13 as amended: the first part holds of the calls before which
\* clear_avatar has not cleared the cached tree since that fetch.
C13_WithinTtlUnlessCleared ==
    CalledAfterFetch =>
        /\ (SinceFetch < CACHE_TTL_MS /\ IsSome(ParamsCall.before.cached_data)) =>
             /\ ~ParamsCall.http
             /\ ParamsCall.res = "Ok"
             /\ ParamsCall.val = Unwrap(last.pre_fetch).data
             /\ ParamsCall.after = ParamsCall.before
        /\ (SinceFetch >= CACHE_TTL_MS /\ last.url) => ParamsCall.http

\* A call 500 ms after the fetch is served from the cache.
C13_Witness ==
    /\ CalledAfterFetch
    /\ SinceFetch = CLEAR_DEBOUNCE_MS
    /\ IsSome(ParamsCall.before.cached_data)
    /\ ~ParamsCall.http

\* The clear_avatar call of the handler that ran last.
ClearCall == Unwrap(last.cleared)
StampedWithinDebounce ==
    /\ IsSome(ClearCall.before.last_fetched)
    /\ TimeMs(ClearCall.at) - TimeMs(Unwrap(ClearCall.before.last_fetched))
         <= CLEAR_DEBOUNCE_MS

\* C14: clear_avatar changes nothing when a fetch was stamped within the
\* preceding 500 ms; otherwise it clears the cached id and tree and stamps
\* the current time as the last-fetched time.
C14_ClearAvatar ==
    IsSome(last.cleared) =>
        IF StampedWithinDebounce
          THEN ClearCall.after = ClearCall.before
          ELSE ClearCall.after =
                 [last_fetched |-> Some(ClearCall.at), cached_data |-> None,
                  avatar_id |-> None]

\* C15: a cached avatar id stays cached until clear_avatar clears it: no
\* get_avatar_parameters call removes or changes it, and get_avatar_id with
\* an id cached returns it with no HTTP request.
C15_AvatarIdStaysCached ==
    /\ (IsSome(last.params) /\ IsSome(ParamsCall.before.avatar_id)) =>
         ParamsCall.after.avatar_id = ParamsCall.before.avatar_id
    /\ \A i \in DOMAIN last.ids :
         IsSome(last.ids[i].before.avatar_id) =>
           /\ last.ids[i].res = "Ok"
           /\ last.ids[i].val = last.ids[i].before.avatar_id
           /\ ~last.ids[i].http
           /\ last.ids[i].after = last.ids[i].before

\* C16: when the request for the tree or for the avatar id fails or its body
\* does not parse, get_avatar_parameters and get_avatar_id return a value
\* and not an error, so avatar detection completes and its thread goes on.
C16_FetchFailureIsSoft ==
    last.http \in {"err", "badjson"} =>
        /\ IsSome(last.params) => ParamsCall.res = "Ok"
        /\ \A i \in DOMAIN last.ids : last.ids[i].res = "Ok"
        /\ last.op \in DetectionOps => (last.ok /\ recv # "dead" /\ ui # "dead")

\* C17: whenever the answer to the avatar-id request cannot be parsed into an
\* identifier (invalid JSON, or no string at VALUE[0]), get_avatar_id
\* returns the empty-string sentinel, never an absent value or an error, so
\* the handler that asked for the id (entry to Active, persistence) does not
\* crash.
C17_UnparsableIdIsSentinel ==
    last.http \in {"badjson", "nostring"} =>
        \A i \in DOMAIN last.ids :
            last.ids[i].http =>
                /\ last.ids[i].res = "Ok"
                /\ last.ids[i].val = Some("")
                /\ last.ok

\* C18: every PregnancySave message is sent at a moment when the system is
\* Active and the current record's child count is above 0, and carries the
\* progress fraction of that record, also when avatar detection or Remove
\* Child runs beside the loop.
C18_PregnancySaveWhileActive ==
    IsSome(bcast.sent) =>
        LET m == Unwrap(bcast.sent) IN
          /\ m.active
          /\ m.child_count > 0
          /\ FracLeq(m.value, m.fraction) /\ FracLeq(m.fraction, m.value)

\* The loop is asleep and its 5 seconds end within the instants of the model.
CanWake ==
    \E t \in Ticks : t >= now /\ TimeMs(t) - TimeMs(bcast.slept) >= SLEEP_MS

ActiveWithChild == get_system_active(World) /\ get_child_count(World) > 0

\* A PregnancySave message has been sent at instant t or later.
SentSince(t) == IsSome(bcast.sent) /\ Unwrap(bcast.sent).at >= t

\* C19: once the receive thread of the Connection Manager exists, the
\* broadcast loop is eventually spawned; each turn of the loop that begins
\* while the system stays Active with a child count above 0 eventually sends
\* PregnancySave; and every sleep of 5 seconds ends with a further turn.
C19_BroadcastLoopRuns ==
    /\ (recv = "start") ~> (bcast.pc # "off")
    /\ \A t \in Ticks :
         (bcast.pc = "b_active" /\ now = t) ~> (~ActiveWithChild \/ SentSince(t))
    /\ (bcast.pc = "b_sleep" /\ CanWake) ~> (bcast.pc = "b_active")

\* The addresses of the packets the socket delivers.
PacketOps == {packet.addr : packet \in Packets}

\* C20: a datagram that fails to decode is dropped: no handler is called for
\* it, nothing is sent, the state stays as it was, and the receive loop goes
\* on, able to take the next datagram; a datagram that decodes is handed to
\* every registered handler in registration order.
C20_UndecodableDropped ==
    /\ last.op = "undecodable" =>
         /\ last.handled = <<>> /\ last.sent = <<>> /\ last.ok
         /\ SystemActive = last.pre_active /\ ChildData = last.pre_data
         /\ save_file = last.pre_file /\ CACHE = last.pre_cache
         /\ recv = "loop"
         /\ ops < MaxOps => ENABLED Receive
    /\ last.op \in PacketOps => last.handled = Handlers

\* A datagram has been dropped and the loop can take the next one.
C20_Witness ==
    /\ last.op = "undecodable" /\ recv = "loop" /\ ops < MaxOps
    /\ get_system_active(World) /\ get_child_count(World) > 0

\* C21: every outbound send of Mode A is addressed to the peer's control
\* endpoint as the registry holds it at that moment, never to the endpoint
\* the metadata (HTTP) requests are made to.
C21_SendsGoToControlEndpoint ==
    last.sent # <<>> =>
        \/ get_osc_query(last.url) = None
        \/ target_address(last.url) # Unwrap(get_osc_query(last.url)).address

\* The UI's entry points that change the current record.
MutationInputs == {"add", "remove", "reset", "time", "type"}

\* C22: every change to the current record made through Add Child, Remove
\* Child, Reset Pregnancy, a duration change or a unit change is persisted:
\* once the entry point has returned, the store's entry of the current avatar
\* equals the current record.
C22_UiChangesPersisted ==
    (/\ last.op \in MutationInputs /\ last.ok
     /\ ChildData # last.pre_data
     /\ IsSome(CACHE.avatar_id)) =>
        save_file[Unwrap(CACHE.avatar_id)] = ChildData

\* C23: handling a message whose address is none of the four inbound
\* addresses (also one that differs in letter case only), or a bundle, leaves
\* system_active, the current record, the cache and the store unchanged and
\* sends nothing; system_active changes only inside avatar detection.
C23_OtherAddressesIgnored ==
    /\ (last.op \in PacketOps \ InboundAddresses) =>
         /\ last.ok /\ last.sent = <<>>
         /\ SystemActive = last.pre_active /\ ChildData = last.pre_data
         /\ save_file = last.pre_file /\ CACHE = last.pre_cache
    /\ SystemActive # last.pre_active => last.op \in DetectionOps

\* A message to /avatar/parameters/ChildCount was handled while the system
\* was Active with a record the same value at Childcount would have changed.
C23_Witness ==
    /\ last.op = "/avatar/parameters/ChildCount"
    /\ last.arg = OscInt(1)
    /\ get_system_active(World) /\ get_child_count(World) = 0

\* The mutexes of the ActiveState.
StateLocks == {"SystemActive", "ChildData"}

\* C24: no thread makes an outbound send or an HTTP request while it holds
\* the system-active or the current-record mutex.
C24_NoNetworkUnderStateLock ==
    \A i \in DOMAIN last.io : last.io[i].held \cap StateLocks = {}

\* C25: the receive loop stops delivering only after a socket receive error:
\* no inbound message, whatever its address and arguments, and no outcome of
\* a metadata request or of persistence made while handling it, ends the loop.
C25_LoopSurvivesEveryMessage ==
    last.op \in PacketOps \cup {"undecodable"} => (last.ok /\ recv = "loop")

\* The startup steps are taken in their order, each once: bind, publication
\* of the port, warm-up, start hook; the hook is entered after 5 seconds.
StartupOrder ==
    /\ recv' = "publish" => recv \in {"bind", "publish"}
    /\ recv' = "warmup" => recv \in {"publish", "warmup"}
    /\ recv' = "start" => recv \in {"warmup", "start"}
    /\ recv' = "bind" => recv = "bind"
    /\ (recv = "start" /\ recv' # "start") => (bcast.pc = "off" /\ bcast'.pc # "off")
    /\ bcast.pc # "off" => recv' \notin StartupPhases

\* C26: bind and publication of the port, the warm-up once, the start hook
\* of the handler exactly once, and only then the first datagram; the start
\* hook returns, so the receive loop is eventually entered; no message is
\* handed to the handler before its start hook has run.
C26_StartupOrder ==
    /\ [][StartupOrder]_vars
    /\ [](recv = "start" => TimeMs(now) >= WARMUP_MS)
    /\ [](locals["recv"].op = "/avatar/change" => bcast.pc # "off")
    /\ (recv = "bind") ~> (recv = "loop")

\* The step is the handling of an avatar-change message that completed while
\* the metadata endpoint was known and answering.
AvatarChangeHandled ==
    /\ last' # last
    /\ last'.op = "/avatar/change" /\ last'.ok
    /\ last'.url /\ last'.http = "ok"

\* C27: after an avatar-change message has been handled, the system is Active
\* if and only if the parameter tree of the avatar current at that time
\* contains the expected subtree, also when the change arrives within 5
\* seconds of the previous fetch.
C27_DecidedOnCurrentAvatar ==
    [][AvatarChangeHandled =>
         (SystemActive' <=> json_path_exists(TreeOf(vrc_avatar'), "PregnancySave"))]_vars

\* The statements at which a thread writes the store it copied.
WriteLabels == {"save_write", "det_write"}

\* The step is thread th's write of the store.
Writes(th) ==
    /\ pc(th) \in WriteLabels
    /\ (IF th = "recv" THEN recv' ELSE ui') = Idle(th)

\* The thread's handler has persisted and returned.
Persisted(th) == pc(th) = Idle(th) /\ locals[th].data # EmptyStore

\* No persist is pending and the store's entry of the current avatar is not
\* the in-memory record.
ChangeLost ==
    /\ Quiescent /\ SystemActive /\ IsSome(ChildData)
    /\ CACHE.avatar_id = Some(vrc_avatar)
    /\ save_file[vrc_avatar] # ChildData

\* C28: the whole-store read-modify-write is last-writer-wins: a write leaves
\* the store as the copy the writing thread made, whatever another thread
\* wrote since that copy was read, so that interleaved persists of a message
\* and of a UI action can lose a change.
C28_LastWriterWins ==
    [][\A th \in Threads : Writes(th) => save_file' = locals[th].data]_vars

\* Both threads have persisted, none is pending, and the change of one is
\* not in the store.
C28_Witness ==
    /\ ChangeLost
    /\ Persisted("recv") /\ locals["recv"].op = "/avatar/parameters/Childcount"
    /\ Persisted("ui") /\ locals["ui"].op \in {"add", "remove", "reset"}

\* The inbound record messages and the two count buttons.
SilentOps ==
    {"/avatar/parameters/Childcount", "/avatar/parameters/GestationTime",
     "/avatar/parameters/Gestation", "add", "remove"}

\* C29: outbound messages come only from the periodic broadcast and from the
\* corrective messages on entry to Active: handling an inbound child-count,
\* gestation-duration or gestation-unit message, and the UI actions Add Child
\* and Remove Child, send no outbound message.
C29_RecordChangesSendNothing ==
    (last.op \in SilentOps /\ last.ok) => last.sent = <<>>

\* The step is thread th's choice of the entry to persist into, while the
\* record in memory is the one loaded under the id last.loaded, the store the
\* thread read holds an entry for that id, and the cache gives the thread an
\* avatar id.
PersistPicksEntry(th) ==
    /\ pc(th) = "save_id" /\ (IF th = "recv" THEN recv' ELSE ui') # "save_id"
    /\ IsSome(last.loaded) /\ IsSome(ChildData)
    /\ locals[th].data[Unwrap(last.loaded)] # None
    /\ ~cache_poisoned
    /\ LET r == get_avatar_id(CACHE, OSC_QUERY, vrc_http, vrc_avatar) IN
         r.res = "Ok" /\ IsSome(r.val)

\* C30: every persist writes the in-memory record under the avatar id for
\* which that record was loaded at entry to Active and changes no other entry
\* of the store, also when the cached id was cleared and refetched between
\* the load and the persist; a persist never fails because the refetched id
\* has no entry in the store.
C30_PersistUnderLoadedId ==
    [][\A th \in Threads :
         PersistPicksEntry(th) =>
           /\ (IF th = "recv" THEN recv' ELSE ui') = "save_get"
           /\ locals'[th].id = Unwrap(last.loaded)]_vars

\* ------------------------------------------------------------ the mutexes
\* The entry points once more, reduced to the mutexes they lock and the
\* places their guards are dropped. A program is a sequence of steps: lock
\* m, unlock m, or a branch, which goes on with one of several programs.
\* Every condition on data is a branch either way, so that each order of
\* locking the code can show is among the runs.
Mutexes == {"CACHE", "ChildData", "SystemActive", "VRC_OSC", "UDP_SOCKET", "OSC_QUERY"}

Acquire(m) == <<[a |-> "lock", m |-> m, of |-> {}]>>
Release(m) == <<[a |-> "unlock", m |-> m, of |-> {}]>>
\* if / match: one of the programs of the set.
Either(programs) == <<[a |-> "branch", m |-> "", of |-> programs]>>
\* if without else.
Maybe(program) == Either({<<>>, program})
\* m.lock().unwrap() with the guard alive over body.
Guarded(m, body) == Acquire(m) \o body \o Release(m)

\* get_osc_query: the guard is a temporary of the one expression.
get_osc_query_locks == Guarded("OSC_QUERY", <<>>)

\* set_vrc_address
set_vrc_address_locks == Guarded("OSC_QUERY", <<>>)

\* get_system_active, set_system_active
SystemActive_locks == Guarded("SystemActive", <<>>)

\* get_child_data and the getters built on it, set_child_data,
\* clear_child_data and the setters other than set_child_count.
ChildData_locks == Guarded("ChildData", <<>>)

\* get_osc_query_cache().get_avatar_id() or .get_avatar_parameters(), with
\* the guard get_osc_query_cache() returned alive to the end of the statement,
\* over rest: a hit returns from the cache, a miss asks get_osc_query for the
\* base URL.
get_osc_query_cache_locks(rest) ==
    Guarded("CACHE", Maybe(get_osc_query_locks) \o rest)

\* send_osc_data: vrc_osc_guard lives to the end of the function. The session
\* handle is never set (nothing calls packet_handler), so the socket is
\* cloned under its own guard and the target address read under OSC_QUERY's.
send_osc_data_locks ==
    Guarded("VRC_OSC", Guarded("UDP_SOCKET", <<>>) \o Guarded("OSC_QUERY", <<>>))

\* set_child_count: `lock` lives to the end of the function, past
\* send_osc_data.
set_child_count_locks == Guarded("ChildData", send_osc_data_locks)

\* save_data as it would be if it copied the record under ChildData's guard
\* and asked the cache for the id while it held that guard.
save_data_locks_nested ==
    Guarded("ChildData", get_osc_query_cache_locks(<<>>))

\* save_data: the cache's guard is dropped at the end of the `let`, before
\* get_child_data().
save_data_locks == get_osc_query_cache_locks(<<>>) \o ChildData_locks

\* child_counter
child_counter_locks ==
    ChildData_locks
      \o Maybe(set_child_count_locks \o ChildData_locks \o Maybe(ChildData_locks))

\* check_avatar_oscquery: set_child_data(..entry(get_osc_query_cache()
\* .get_avatar_id()..)..) locks ChildData while the cache's guard is alive.
check_avatar_oscquery_locks ==
    get_osc_query_cache_locks(<<>>)
      \o Guarded("CACHE", <<>>)
      \o Either({get_osc_query_cache_locks(ChildData_locks)
                   \o SystemActive_locks
                   \o ChildData_locks \o ChildData_locks \o ChildData_locks
                   \o send_osc_data_locks \o send_osc_data_locks
                   \o Maybe(send_osc_data_locks \o send_osc_data_locks),
                 SystemActive_locks \o ChildData_locks})

\* handle: the child-count arm, the arms of the duration and of the unit,
\* the avatar-change arm, and the arm of every other address.
handle_locks ==
    Either({SystemActive_locks \o Maybe(child_counter_locks \o save_data_locks),
            SystemActive_locks \o Maybe(ChildData_locks \o save_data_locks),
            check_avatar_oscquery_locks,
            <<>>})

\* The broadcast loop, one round: get_system_active, get_child_count, then
\* get_gestation_progress_fraction and send_osc_data.
broadcast_locks ==
    SystemActive_locks
      \o Maybe(ChildData_locks
                 \o Maybe(ChildData_locks
                            \o Maybe(ChildData_locks \o ChildData_locks \o ChildData_locks)
                            \o send_osc_data_locks))

\* PregUI::update: the three reads at the top of the frame, then the widget
\* that took an input: none, Reset Pregancy or a duration field, the unit
\* selector, Add Child, Remove Child, Recheck Avatar.
update_locks ==
    ChildData_locks \o SystemActive_locks \o get_osc_query_cache_locks(<<>>)
      \o Either({<<>>,
                 ChildData_locks \o save_data_locks,
                 ChildData_locks \o ChildData_locks,
                 ChildData_locks \o ChildData_locks \o Maybe(ChildData_locks)
                   \o Maybe(set_child_count_locks \o save_data_locks),
                 ChildData_locks
                   \o Maybe(Maybe(ChildData_locks) \o set_child_count_locks
                              \o save_data_locks),
                 check_avatar_oscquery_locks})

\* What a thread runs, again and again: the receive thread the start hook's
\* detection or a handler, the broadcast thread a round of its loop, the UI
\* thread a frame, the set-up task OscServer::start's publication of the
\* socket and the recording of the peer's address.
Program(th) ==
    CASE th = "recv" -> Either({check_avatar_oscquery_locks, handle_locks})
      [] th = "bcast" -> broadcast_locks
      [] th = "ui" -> update_locks
      [] OTHER -> Guarded("UDP_SOCKET", <<>>) \o set_vrc_address_locks

\* The thread that holds mutex m, if any.
Holders(m) == {th \in LockThreads : m \in guards[th].held}

LocksOnly ==
    UNCHANGED <<SystemActive, ChildData, save_file, CACHE, cache_poisoned, OSC_QUERY,
                vrc_avatar, vrc_http, now, recv, ui, locals, bcast, ops, last>>

\* A thread outside every entry point enters one.
L_Enter ==
    /\ \E th \in LockThreads :
         /\ guards[th].todo = <<>>
         /\ guards' = [guards EXCEPT ![th].todo = Program(th)]
    /\ LocksOnly

\* Mutex::lock: the thread goes on once no thread holds the mutex; until then
\* it waits (a thread that holds it itself waits for ever).
L_Lock ==
    /\ \E th \in LockThreads :
         /\ guards[th].todo # <<>>
         /\ LET step == Head(guards[th].todo) IN
              /\ step.a = "lock"
              /\ Holders(step.m) = {}
              /\ guards' = [guards EXCEPT ![th].held = @ \cup {step.m},
                                          ![th].todo = Tail(@)]
    /\ LocksOnly

\* The guard is dropped.
L_Unlock ==
    /\ \E th \in LockThreads :
         /\ guards[th].todo # <<>>
         /\ LET step == Head(guards[th].todo) IN
              /\ step.a = "unlock"
              /\ guards' = [guards EXCEPT ![th].held = @ \ {step.m},
                                          ![th].todo = Tail(@)]
    /\ LocksOnly

\* A condition on data is decided.
L_Branch ==
    /\ \E th \in LockThreads :
         /\ guards[th].todo # <<>>
         /\ LET step == Head(guards[th].todo) IN
              /\ step.a = "branch"
              /\ \E program \in step.of :
                   guards' = [guards EXCEPT ![th].todo = program \o Tail(@)]
    /\ LocksOnly

NextLocks == L_Enter \/ L_Branch \/ L_Lock \/ L_Unlock

\* The steps of the mutexes read neither the save file nor the peer's
\* avatar: one initial state stands for all.
InitLocks == Init /\ save_file = EmptyStore /\ vrc_avatar = "avtr_a"

SpecLocks == InitLocks /\ [][NextLocks]_vars

\* Thread th waits for mutex m.
WaitsFor(th, m) ==
    /\ guards[th].todo # <<>>
    /\ Head(guards[th].todo).a = "lock" /\ Head(guards[th].todo).m = m
    /\ Holders(m) # {}

\* Each thread of set waits for a mutex a thread of set holds.
Deadlocked(set) ==
    /\ set # {}
    /\ \A th \in set : \E m \in Mutexes : WaitsFor(th, m) /\ Holders(m) \subseteq set

\* The one order the mutexes are locked in.
LockRank(m) ==
    CASE m = "SystemActive" -> 0
      [] m = "CACHE" -> 1
      [] m = "ChildData" -> 2
      [] m = "VRC_OSC" -> 3
      [] m = "UDP_SOCKET" -> 4
      [] OTHER -> 5

\* A thread about to lock m holds only mutexes that come before m, and a
\* thread that holds SystemActive locks nothing.
InLockOrder ==
    \A th \in LockThreads :
      (guards[th].todo # <<>> /\ Head(guards[th].todo).a = "lock") =>
         /\ "SystemActive" \notin guards[th].held
         /\ \A h \in guards[th].held : LockRank(h) < LockRank(Head(guards[th].todo).m)

\* C31: the receive loop, the broadcast loop and the UI thread never deadlock
\* on the shared mutexes (CACHE, ChildData, SystemActive, VRC_OSC, UDP_SOCKET,
\* OSC_QUERY): in no reachable state does each thread of a set wait for a
\* mutex that a thread of the set holds, because every thread locks the
\* mutexes in one order.
C31_NoLockDeadlock ==
    /\ InLockOrder
    /\ \A set \in SUBSET LockThreads : ~Deadlocked(set)

\* The threads do contend: the receive thread holds CACHE and waits for
\* ChildData, which the UI thread holds while it waits for VRC_OSC, which the
\* broadcast loop holds.
C31_Witness ==
    /\ "CACHE" \in guards["recv"].held /\ WaitsFor("recv", "ChildData")
    /\ "ChildData" \in guards["ui"].held /\ WaitsFor("ui", "VRC_OSC")
    /\ "VRC_OSC" \in guards["bcast"].held

====
